---- MODULE Spec2Model ----
(***************************************************************************)
(* Model of Funny.py: an analog clock whose Tk callbacks (update_clock,    *)
(* mute_now, quit_app, the "Speak time" check button) feed a queue.Queue   *)
(* that one daemon thread (tts_worker) drains into a blocking TTS engine.  *)
(*                                                                         *)
(* Python strings are TLA+ strings; the only change is that the em dash of *)
(* two templates is written "--", TLA+ strings being ASCII.                *)
(***************************************************************************)
EXTENDS Integers, Sequences, FiniteSets, TLC

VARIABLES
    tts_queue,            \* queue.Queue(): the items not yet taken, head first
    unfinished_tasks,     \* queue.Queue.unfinished_tasks (put: +1, task_done: -1)
    speak_var,            \* the BooleanVar behind the "Speak time" check button
    last_spoken_second,   \* PhilosopherClock.last_spoken_second
    now,                  \* the reading datetime.now() returned last
    ui,                   \* where the Tk main thread is
    wpc,                  \* where the tts_worker thread is
    text,                 \* tts_worker's local variable text
    active,               \* number of say/runAndWait calls that have not returned
    enqueued,             \* history: every text ever put, in put order
    spoken,               \* history: every item passed to say, in call order
    op,                   \* history: the step taken last
    clock_steps,          \* how often datetime.now() returned a new reading
    toggles,              \* how often the check button was clicked
    second_puts,          \* history: phrases update_clock has put at reading now
    drained,              \* history: ids of the items mute_now has taken
    arg,                  \* function harness: the (h, m, s) under test
    ret                   \* function harness: the value returned

vars == <<tts_queue, unfinished_tasks, speak_var, last_spoken_second, now, ui,
          wpc, text, active, enqueued, spoken, op, clock_steps, toggles,
          second_puts, drained, arg, ret>>

sysvars == <<tts_queue, unfinished_tasks, speak_var, last_spoken_second, now,
             ui, wpc, text, active, enqueued, spoken, op, clock_steps,
             toggles, second_puts, drained>>

-----------------------------------------------------------------------------
(* Bounds of the model: the environment (time, the user) acts this often.   *)

MaxClockSteps == 2
MaxToggles == 1

(* The readings the wall clock takes in the system model; the function      *)
(* harness below ranges over every reading.                                 *)
ModelReadings ==
    { [hour |-> 0,  minute |-> 0,  second |-> 0],
      [hour |-> 9,  minute |-> 5,  second |-> 7],
      [hour |-> 21, minute |-> 59, second |-> 7] }

(* The reading datetime.now() gives while the program starts. *)
StartReading == [hour |-> 9, minute |-> 5, second |-> 7]

Hours == 0..23
Minutes == 0..59
Seconds == 0..59

-----------------------------------------------------------------------------
(* Configuration and helper functions                                       *)

(* PHILOSOPHERS, indexed from 0 as the Python list is. *)
PHILOSOPHERS ==
    [i \in 0..11 |->
        << "Leibniz", "Kant", "Hegel", "Fichte", "Schopenhauer", "Nietzsche",
           "Marx", "Engels", "Herder", "Lessing", "Heidegger",
           "Habermas" >>[i + 1]]

(* A format template is a sequence of pieces: literal text or a replacement *)
(* field {h}, {m}, {s}.                                                     *)
Lit(s) == [kind |-> "lit", s |-> s]
Fld(n) == [kind |-> "field", s |-> n]

PHRASES ==
    [p \in {PHILOSOPHERS[i] : i \in 0..11} |->
       CASE p = "Leibniz" ->
              << Lit("Ah, the best of all possible times: "), Fld("h"),
                 Lit(" hours, "), Fld("m"), Lit(" minutes and "), Fld("s"),
                 Lit(" seconds.") >>
         [] p = "Kant" ->
              << Lit("By duty I declare: it is "), Fld("h"), Lit(" hours, "),
                 Fld("m"), Lit(" minutes and "), Fld("s"), Lit(" seconds.") >>
         [] p = "Hegel" ->
              << Lit("The time is (in dialectical motion) "), Fld("h"),
                 Lit(":"), Fld("m"), Lit(":"), Fld("s"), Lit(".") >>
         [] p = "Fichte" ->
              << Lit("Consciousness proclaims: "), Fld("h"), Lit(" hours, "),
                 Fld("m"), Lit(" minutes, "), Fld("s"), Lit(" seconds.") >>
         [] p = "Schopenhauer" ->
              << Lit("Time, the will's annoying companion: "), Fld("h"),
                 Lit("h "), Fld("m"), Lit("m "), Fld("s"), Lit("s.") >>
         [] p = "Nietzsche" ->
              << Lit("Behold the hour: "), Fld("h"), Lit(" hours, "),
                 Fld("m"), Lit(" minutes, "), Fld("s"),
                 Lit(" seconds -- become who you are.") >>
         [] p = "Marx" ->
              << Lit("Workers of the world note the time: "), Fld("h"),
                 Lit(":"), Fld("m"), Lit(":"), Fld("s"), Lit(".") >>
         [] p = "Engels" ->
              << Lit("Material conditions indicate: "), Fld("h"),
                 Lit(" hours "), Fld("m"), Lit(" minutes "), Fld("s"),
                 Lit(" seconds.") >>
         [] p = "Herder" ->
              << Lit("Time tells culture: it's "), Fld("h"),
                 Lit(" hours and "), Fld("m"), Lit(" minutes, "), Fld("s"),
                 Lit(" seconds.") >>
         [] p = "Lessing" ->
              << Lit("In the theatre of life -- the clock says "), Fld("h"),
                 Lit(":"), Fld("m"), Lit(":"), Fld("s"), Lit(".") >>
         [] p = "Heidegger" ->
              << Lit("Time is (being): "), Fld("h"), Lit(" hours, "),
                 Fld("m"), Lit(" minutes, "), Fld("s"), Lit(" seconds.") >>
         [] p = "Habermas" ->
              << Lit("Communicative act: the time is "), Fld("h"), Lit(":"),
                 Fld("m"), Lit(":"), Fld("s"), Lit(".") >>]

(* The default of PHRASES.get(phil, "It's {h}:{m}:{s}."). *)
DefaultTemplate ==
    << Lit("It's "), Fld("h"), Lit(":"), Fld("m"), Lit(":"), Fld("s"),
       Lit(".") >>

(* dict.get(key, default) *)
PhrasesGet(phil, default) ==
    IF phil \in DOMAIN PHRASES THEN PHRASES[phil] ELSE default

(* str(n) of an int n >= 0: its decimal digits, most significant first. *)
DigitChar(d) == SubSeq("0123456789", d + 1, d + 1)

RECURSIVE PyStr(_)
PyStr(n) ==
    IF n < 10 THEN DigitChar(n) ELSE PyStr(n \div 10) \o DigitChar(n % 10)

(* str.zfill(width) of a string without sign. *)
RECURSIVE zfill(_, _)
zfill(s, width) ==
    IF Len(s) >= width THEN s ELSE zfill("0" \o s, width)

(* str.format with keyword arguments kw: each field replaced by its      *)
(* argument, literal text kept.                                          *)
RECURSIVE StrFormat(_, _)
StrFormat(template, kw) ==
    IF template = <<>> THEN ""
    ELSE LET piece == Head(template)
         IN  (IF piece.kind = "lit" THEN piece.s ELSE kw[piece.s])
                \o StrFormat(Tail(template), kw)

hour_to_philosopher_wrong_index(hour24) ==
    LET h12a == hour24 % 12
        h12  == IF h12a = 0 THEN 12 ELSE h12a
        idx  == h12 % 12
    IN  PHILOSOPHERS[idx]

hour_to_philosopher(hour24) ==
    LET h12a == hour24 % 12
        h12  == IF h12a = 0 THEN 12 ELSE h12a
        idx  == (h12 - 1) % 12
    IN  PHILOSOPHERS[idx]

format_time_phrase_no_pad(h, m, s) ==
    LET phil     == hour_to_philosopher(h)
        template == PhrasesGet(phil, DefaultTemplate)
    IN  phil \o " says: "
          \o StrFormat(template, [h |-> PyStr(h), m |-> PyStr(m),
                                  s |-> zfill(PyStr(s), 2)])

format_time_phrase(h, m, s) ==
    LET phil     == hour_to_philosopher(h)
        template == PhrasesGet(phil, DefaultTemplate)
    IN  phil \o " says: "
          \o StrFormat(template, [h |-> PyStr(h), m |-> zfill(PyStr(m), 2),
                                  s |-> zfill(PyStr(s), 2)])

(* Python floats, taken as the exact rationals num/den in lowest terms     *)
(* (den > 0): the rounding of IEEE arithmetic is left out.                  *)
RECURSIVE GCD(_, _)
GCD(a, b) == IF b = 0 THEN a ELSE GCD(b, a % b)

Rat(n, d) ==
    LET g == GCD(IF n < 0 THEN -n ELSE n, d)
    IN  [num |-> n \div g, den |-> d \div g]

FromInt(n) == [num |-> n, den |-> 1]

RatAdd(x, y) == Rat(x.num * y.den + y.num * x.den, x.den * y.den)
RatMul(x, y) == Rat(x.num * y.num, x.den * y.den)
RatDiv(x, y) == Rat(x.num * y.den, x.den * y.num)

(* The angles of draw_hands with the hour on a 24-hour circle. *)
draw_hands_24h(h, m, s) ==
    LET hour_in_12   == RatAdd(FromInt(h), RatDiv(FromInt(m), FromInt(60)))
        hour_angle   == RatMul(hour_in_12, FromInt(30))
        minute_angle == RatMul(RatAdd(FromInt(m),
                                      RatDiv(FromInt(s), FromInt(60))),
                               FromInt(6))
        second_angle == s * 6
    IN  [hour_angle |-> hour_angle, minute_angle |-> minute_angle,
         second_angle |-> second_angle]

(* draw_hands: the three angles it computes from now, in degrees. *)
draw_hands(h, m, s) ==
    LET hour_in_12   == RatAdd(FromInt(h % 12),
                               RatDiv(FromInt(m), FromInt(60)))
        hour_angle   == RatMul(hour_in_12, FromInt(30))
        minute_angle == RatMul(RatAdd(FromInt(m),
                                      RatDiv(FromInt(s), FromInt(60))),
                               FromInt(6))
        second_angle == s * 6
    IN  [hour_angle |-> hour_angle, minute_angle |-> minute_angle,
         second_angle |-> second_angle]

(* The marks of draw_face with label_idx = i. *)
draw_face_unshifted ==
    [i \in 0..11 |-> [angle |-> i * 30, name |-> PHILOSOPHERS[i % 12]]]

(* draw_face: for each i of range(12), the angle of the mark and the name   *)
(* written at it.                                                           *)
draw_face ==
    [i \in 0..11 |->
        LET angle     == i * 30
            label_idx == (i + 11) % 12
        IN  [angle |-> angle, name |-> PHILOSOPHERS[label_idx]]]

-----------------------------------------------------------------------------
(* The queue                                                                *)

(* The shutdown sentinel put by quit_app; no phrase is equal to it. *)
None == "<None>"

MutedNotice == "Muted. Philosophy will be silent, temporarily."

(* queue.Queue() is built without maxsize: 0 means no capacity limit. *)
maxsize == 0

(* queue.Queue.full() *)
QueueFull == maxsize > 0 /\ Len(tts_queue) >= maxsize

(* queue.Queue.put_nowait(t) when the queue is not full.  An item carries   *)
(* its position in the put history, which tells equal texts apart.          *)
put_nowait(t) ==
    /\ tts_queue' = Append(tts_queue, [id |-> Len(enqueued) + 1, text |-> t])
    /\ enqueued' = Append(enqueued, t)
    /\ unfinished_tasks' = unfinished_tasks + 1

-----------------------------------------------------------------------------
(* Initial state: the module is loaded (the queue is empty, the worker      *)
(* thread is started and blocks in q.get()) and PhilosopherClock.__init__   *)
(* has set its fields and is about to make its own call of update_clock.    *)

SysInit ==
    /\ tts_queue = <<>>
    /\ unfinished_tasks = 0
    /\ speak_var = TRUE
    /\ last_spoken_second = -1
    /\ now = StartReading
    /\ ui = "init"
    /\ wpc = "Idle"
    /\ text = ""
    /\ active = 0
    /\ enqueued = <<>>
    /\ spoken = <<>>
    /\ op = "init"
    /\ clock_steps = 0
    /\ toggles = 0
    /\ second_puts = 0
    /\ drained = {}

NoCall == [fn |-> "none", val |-> ""]

Init ==
    /\ SysInit
    /\ arg = [h |-> 0, m |-> 0, s |-> 0]
    /\ ret = NoCall

-----------------------------------------------------------------------------
(* The environment                                                          *)

(* What datetime.now() can return to the next caller: the reading it       *)
(* returned last, or a later one, time having passed.                       *)
Readable ==
    {now} \cup (IF clock_steps < MaxClockSteps THEN ModelReadings ELSE {})

(* The user clicks the "Speak time" check button. *)
speak_check ==
    /\ ui = "idle"
    /\ toggles < MaxToggles
    /\ speak_var' = ~speak_var
    /\ toggles' = toggles + 1
    /\ op' = "speak_check"
    /\ UNCHANGED <<tts_queue, unfinished_tasks, last_spoken_second, now, ui,
                   wpc, text, active, enqueued, spoken, clock_steps, second_puts, drained,
                   arg, ret>>

-----------------------------------------------------------------------------
(* The Tk main thread                                                       *)

(* update_clock without the assignment to last_spoken_second. *)
update_clock_forgets_second ==
    /\ ui \in {"init", "idle"}
    /\ \E r \in Readable :
          /\ now' = r
          /\ clock_steps' = IF r = now THEN clock_steps ELSE clock_steps + 1
          /\ IF speak_var /\ r.second # last_spoken_second
             THEN /\ IF QueueFull
                     THEN UNCHANGED <<tts_queue, enqueued, unfinished_tasks>>
                     ELSE put_nowait(format_time_phrase(r.hour, r.minute,
                                                        r.second))
                  /\ UNCHANGED last_spoken_second
             ELSE UNCHANGED <<tts_queue, enqueued, unfinished_tasks,
                              last_spoken_second>>
          /\ second_puts' = (IF r = now THEN second_puts ELSE 0)
                               + Len(enqueued') - Len(enqueued)
    /\ ui' = "idle"
    /\ op' = "update_clock"
    /\ UNCHANGED <<speak_var, wpc, text, active, spoken, toggles, drained,
                   arg, ret>>

(* update_clock that waits until the engine is silent. *)
update_clock_waits_for_speech ==
    /\ ui \in {"init", "idle"}
    /\ active = 0
    /\ \E r \in Readable :
          /\ now' = r
          /\ clock_steps' = IF r = now THEN clock_steps ELSE clock_steps + 1
          /\ IF speak_var /\ r.second # last_spoken_second
             THEN /\ IF QueueFull
                     THEN UNCHANGED <<tts_queue, enqueued, unfinished_tasks>>
                     ELSE put_nowait(format_time_phrase(r.hour, r.minute,
                                                        r.second))
                  /\ last_spoken_second' = r.second
             ELSE UNCHANGED <<tts_queue, enqueued, unfinished_tasks,
                              last_spoken_second>>
          /\ second_puts' = (IF r = now THEN second_puts ELSE 0)
                               + Len(enqueued') - Len(enqueued)
    /\ ui' = "idle"
    /\ op' = "update_clock"
    /\ UNCHANGED <<speak_var, wpc, text, active, spoken, toggles, drained,
                   arg, ret>>

(* update_clock without the test of speak_var. *)
update_clock_ignores_speak_var ==
    /\ ui \in {"init", "idle"}
    /\ \E r \in Readable :
          /\ now' = r
          /\ clock_steps' = IF r = now THEN clock_steps ELSE clock_steps + 1
          /\ IF r.second # last_spoken_second
             THEN /\ IF QueueFull
                     THEN UNCHANGED <<tts_queue, enqueued, unfinished_tasks>>
                     ELSE put_nowait(format_time_phrase(r.hour, r.minute,
                                                        r.second))
                  /\ last_spoken_second' = r.second
             ELSE UNCHANGED <<tts_queue, enqueued, unfinished_tasks,
                              last_spoken_second>>
          /\ second_puts' = (IF r = now THEN second_puts ELSE 0)
                               + Len(enqueued') - Len(enqueued)
    /\ ui' = "idle"
    /\ op' = "update_clock"
    /\ UNCHANGED <<speak_var, wpc, text, active, spoken, toggles, drained,
                   arg, ret>>

(* update_clock: the call made by __init__ and every later timer firing,    *)
(* with r the reading now = datetime.now() gets.  draw_hands changes the    *)
(* canvas only.                                                             *)
update_clock ==
    /\ ui \in {"init", "idle"}
    /\ \E r \in Readable :
          /\ now' = r
          /\ clock_steps' = IF r = now THEN clock_steps ELSE clock_steps + 1
          /\ IF speak_var /\ r.second # last_spoken_second
             THEN /\ IF QueueFull
                     THEN UNCHANGED <<tts_queue, enqueued, unfinished_tasks>>
                     ELSE put_nowait(format_time_phrase(r.hour, r.minute,
                                                        r.second))
                  /\ last_spoken_second' = r.second
             ELSE UNCHANGED <<tts_queue, enqueued, unfinished_tasks,
                              last_spoken_second>>
          /\ second_puts' = (IF r = now THEN second_puts ELSE 0)
                               + Len(enqueued') - Len(enqueued)
    /\ ui' = "idle"
    /\ op' = "update_clock"
    /\ UNCHANGED <<speak_var, wpc, text, active, spoken, toggles, drained,
                   arg, ret>>

(* mute_now, one queue operation at a time: the worker runs in between.     *)
(* The click enters the handler.                                            *)
mute_now_enter ==
    /\ ui = "idle"
    /\ ui' = "mute_loop"
    /\ op' = "mute_now_enter"
    /\ UNCHANGED <<tts_queue, unfinished_tasks, speak_var, last_spoken_second,
                   now, wpc, text, active, enqueued, spoken, clock_steps,
                   toggles, second_puts, drained,
                   arg, ret>>

(* while not tts_queue.empty() *)
mute_now_empty ==
    /\ ui = "mute_loop"
    /\ ui' = IF tts_queue = <<>> THEN "mute_announce" ELSE "mute_get"
    /\ op' = "mute_now_empty"
    /\ UNCHANGED <<tts_queue, unfinished_tasks, speak_var, last_spoken_second,
                   now, wpc, text, active, enqueued, spoken, clock_steps,
                   toggles, second_puts, drained,
                   arg, ret>>

(* get_nowait without the except clause: queue.Empty ends the handler. *)
mute_now_get_nowait_uncaught ==
    /\ ui = "mute_get"
    /\ IF tts_queue = <<>>
       THEN /\ ui' = "idle"
            /\ op' = "mute_now_raised"
            /\ UNCHANGED <<tts_queue, drained>>
       ELSE /\ ui' = "mute_task_done"
            /\ op' = "mute_now_get_nowait"
            /\ tts_queue' = Tail(tts_queue)
            /\ drained' = drained \cup {Head(tts_queue).id}
    /\ UNCHANGED <<unfinished_tasks, speak_var, last_spoken_second, now, wpc,
                   text, active, enqueued, spoken, clock_steps, toggles,
                   second_puts, arg, ret>>

(* get_nowait with task_done outside the try: queue.Empty is followed by a *)
(* task_done too.                                                          *)
mute_now_get_nowait_always_done ==
    /\ ui = "mute_get"
    /\ IF tts_queue = <<>>
       THEN /\ ui' = "mute_task_done"
            /\ UNCHANGED <<tts_queue, drained>>
       ELSE /\ ui' = "mute_task_done"
            /\ tts_queue' = Tail(tts_queue)
            /\ drained' = drained \cup {Head(tts_queue).id}
    /\ op' = "mute_now_get_nowait"
    /\ UNCHANGED <<unfinished_tasks, speak_var, last_spoken_second, now, wpc,
                   text, active, enqueued, spoken, clock_steps, toggles,
                   second_puts, arg, ret>>

(* tts_queue.get_nowait(); queue.Empty leaves the loop. *)
mute_now_get_nowait ==
    /\ ui = "mute_get"
    /\ IF tts_queue = <<>>
       THEN /\ ui' = "mute_announce"
            /\ UNCHANGED <<tts_queue, drained>>
       ELSE /\ ui' = "mute_task_done"
            /\ tts_queue' = Tail(tts_queue)
            /\ drained' = drained \cup {Head(tts_queue).id}
    /\ op' = "mute_now_get_nowait"
    /\ UNCHANGED <<unfinished_tasks, speak_var, last_spoken_second, now, wpc,
                   text, active, enqueued, spoken, clock_steps, toggles,
                   second_puts, arg, ret>>

(* task_done followed by the announcement: an if in place of the while. *)
mute_now_task_done_no_loop ==
    /\ ui = "mute_task_done"
    /\ IF unfinished_tasks <= 0
       THEN /\ ui' = "idle"
            /\ op' = "mute_now_raised"
            /\ UNCHANGED unfinished_tasks
       ELSE /\ ui' = "mute_announce"
            /\ op' = "mute_now_task_done"
            /\ unfinished_tasks' = unfinished_tasks - 1
    /\ UNCHANGED <<tts_queue, speak_var, last_spoken_second, now, wpc, text,
                   active, enqueued, spoken, clock_steps, toggles, second_puts, drained,
                   arg, ret>>

(* tts_queue.task_done(); its ValueError is not caught and ends the handler. *)
mute_now_task_done ==
    /\ ui = "mute_task_done"
    /\ IF unfinished_tasks <= 0
       THEN /\ ui' = "idle"
            /\ op' = "mute_now_raised"
            /\ UNCHANGED unfinished_tasks
       ELSE /\ ui' = "mute_loop"
            /\ op' = "mute_now_task_done"
            /\ unfinished_tasks' = unfinished_tasks - 1
    /\ UNCHANGED <<tts_queue, speak_var, last_spoken_second, now, wpc, text,
                   active, enqueued, spoken, clock_steps, toggles, second_puts, drained,
                   arg, ret>>

(* The announcement made whether or not speak_var is true. *)
mute_now_announce_always ==
    /\ ui = "mute_announce"
    /\ put_nowait(MutedNotice)
    /\ speak_var' = FALSE
    /\ ui' = "idle"
    /\ op' = "mute_now"
    /\ UNCHANGED <<last_spoken_second, now, wpc, text, active, spoken,
                   clock_steps, toggles, second_puts, drained,
                   arg, ret>>

(* The announcement and speak_var.set(False): the handler returns. *)
mute_now_announce ==
    /\ ui = "mute_announce"
    /\ IF speak_var
       THEN put_nowait(MutedNotice)
       ELSE UNCHANGED <<tts_queue, enqueued, unfinished_tasks>>
    /\ speak_var' = FALSE
    /\ ui' = "idle"
    /\ op' = "mute_now"
    /\ UNCHANGED <<last_spoken_second, now, wpc, text, active, spoken,
                   clock_steps, toggles, second_puts, drained,
                   arg, ret>>

(* quit_app that destroys the window without putting the sentinel. *)
quit_app_no_sentinel ==
    /\ ui = "idle"
    /\ ui' = "destroyed"
    /\ op' = "quit_app"
    /\ UNCHANGED <<tts_queue, enqueued, unfinished_tasks, speak_var,
                   last_spoken_second, now, wpc, text, active, spoken,
                   clock_steps, toggles, second_puts, drained,
                   arg, ret>>

(* quit_app: the sentinel is put and the window destroyed, after which Tk   *)
(* runs no callback any more.                                               *)
quit_app ==
    /\ ui = "idle"
    /\ IF QueueFull
       THEN UNCHANGED <<tts_queue, enqueued, unfinished_tasks>>
       ELSE put_nowait(None)
    /\ ui' = "destroyed"
    /\ op' = "quit_app"
    /\ UNCHANGED <<speak_var, last_spoken_second, now, wpc, text, active,
                   spoken, clock_steps, toggles, second_puts, drained,
                   arg, ret>>

-----------------------------------------------------------------------------
(* The tts_worker thread                                                    *)

(* A worker that reads the head of the queue without removing it. *)
tts_worker_get_peek ==
    /\ wpc = "Idle"
    /\ tts_queue # <<>>
    /\ LET item == Head(tts_queue)
       IN  /\ tts_queue' = tts_queue
           /\ text' = item.text
           /\ IF item.text = None
              THEN /\ wpc' = "Stopped"
                   /\ UNCHANGED <<active, spoken>>
              ELSE /\ wpc' = "Speaking"
                   /\ active' = active + 1
                   /\ spoken' = Append(spoken, item)
    /\ op' = "tts_worker_get"
    /\ UNCHANGED <<unfinished_tasks, speak_var, last_spoken_second, now, ui,
                   enqueued, clock_steps, toggles, second_puts, drained,
                   arg, ret>>

(* A worker that skips the sentinel (continue in place of break). *)
tts_worker_get_continue ==
    /\ wpc = "Idle"
    /\ tts_queue # <<>>
    /\ LET item == Head(tts_queue)
       IN  /\ tts_queue' = Tail(tts_queue)
           /\ text' = item.text
           /\ IF item.text = None
              THEN /\ wpc' = "Idle"
                   /\ UNCHANGED <<active, spoken>>
              ELSE /\ wpc' = "Speaking"
                   /\ active' = active + 1
                   /\ spoken' = Append(spoken, item)
    /\ op' = "tts_worker_get"
    /\ UNCHANGED <<unfinished_tasks, speak_var, last_spoken_second, now, ui,
                   enqueued, clock_steps, toggles, second_puts, drained,
                   arg, ret>>

(* A worker that takes the newest item. *)
tts_worker_get_newest ==
    /\ wpc = "Idle"
    /\ tts_queue # <<>>
    /\ LET item == tts_queue[Len(tts_queue)]
       IN  /\ tts_queue' = SubSeq(tts_queue, 1, Len(tts_queue) - 1)
           /\ text' = item.text
           /\ IF item.text = None
              THEN /\ wpc' = "Stopped"
                   /\ UNCHANGED <<active, spoken>>
              ELSE /\ wpc' = "Speaking"
                   /\ active' = active + 1
                   /\ spoken' = Append(spoken, item)
    /\ op' = "tts_worker_get"
    /\ UNCHANGED <<unfinished_tasks, speak_var, last_spoken_second, now, ui,
                   enqueued, clock_steps, toggles, second_puts, drained,
                   arg, ret>>

(* A worker that takes the next item while runAndWait is still running. *)
tts_worker_get_no_wait ==
    /\ wpc \in {"Idle", "Speaking"}
    /\ tts_queue # <<>>
    /\ LET item == Head(tts_queue)
       IN  /\ tts_queue' = Tail(tts_queue)
           /\ text' = item.text
           /\ IF item.text = None
              THEN /\ wpc' = "Stopped"
                   /\ UNCHANGED <<active, spoken>>
              ELSE /\ wpc' = "Speaking"
                   /\ active' = active + 1
                   /\ spoken' = Append(spoken, item)
    /\ op' = "tts_worker_get"
    /\ UNCHANGED <<unfinished_tasks, speak_var, last_spoken_second, now, ui,
                   enqueued, clock_steps, toggles, second_puts, drained,
                   arg, ret>>

(* text = q.get() returns; None breaks the loop, any other text is passed   *)
(* to tts_engine.say and runAndWait starts.                                 *)
tts_worker_get ==
    /\ wpc = "Idle"
    /\ tts_queue # <<>>
    /\ LET item == Head(tts_queue)
       IN  /\ tts_queue' = Tail(tts_queue)
           /\ text' = item.text
           /\ IF item.text = None
              THEN /\ wpc' = "Stopped"
                   /\ UNCHANGED <<active, spoken>>
              ELSE /\ wpc' = "Speaking"
                   /\ active' = active + 1
                   /\ spoken' = Append(spoken, item)
    /\ op' = "tts_worker_get"
    /\ UNCHANGED <<unfinished_tasks, speak_var, last_spoken_second, now, ui,
                   enqueued, clock_steps, toggles, second_puts, drained,
                   arg, ret>>

(* A worker without the try/except: an engine error ends the thread. *)
tts_worker_done_uncaught ==
    /\ wpc = "Speaking"
    /\ \E ok \in BOOLEAN :
          /\ active' = active - 1
          /\ IF ~ok \/ unfinished_tasks <= 0
             THEN /\ wpc' = "Crashed"
                  /\ UNCHANGED unfinished_tasks
             ELSE /\ wpc' = "Idle"
                  /\ unfinished_tasks' = unfinished_tasks - 1
          /\ op' = IF ok THEN "say_returned" ELSE "say_raised"
    /\ UNCHANGED <<tts_queue, speak_var, last_spoken_second, now, ui, text,
                   enqueued, spoken, clock_steps, toggles, second_puts, drained,
                   arg, ret>>

(* runAndWait returns or raises (the exception is caught and printed), then *)
(* q.task_done(), whose ValueError would end the thread.                    *)
tts_worker_done ==
    /\ wpc = "Speaking"
    /\ \E ok \in BOOLEAN :
          /\ active' = active - 1
          /\ IF unfinished_tasks <= 0
             THEN /\ wpc' = "Crashed"
                  /\ UNCHANGED unfinished_tasks
             ELSE /\ wpc' = "Idle"
                  /\ unfinished_tasks' = unfinished_tasks - 1
          /\ op' = IF ok THEN "say_returned" ELSE "say_raised"
    /\ UNCHANGED <<tts_queue, speak_var, last_spoken_second, now, ui, text,
                   enqueued, spoken, clock_steps, toggles, second_puts, drained,
                   arg, ret>>

-----------------------------------------------------------------------------
(* The worker thread: whichever of its two steps it is at. *)
tts_worker == tts_worker_get \/ tts_worker_done

Next ==
    \/ speak_check
    \/ update_clock
    \/ mute_now_enter
    \/ mute_now_empty
    \/ mute_now_get_nowait
    \/ mute_now_task_done
    \/ mute_now_announce
    \/ quit_app
    \/ tts_worker_get
    \/ tts_worker_done

Spec == Init /\ [][Next]_vars

(* The thread scheduler runs the worker whenever it can run, and every      *)
(* runAndWait call returns.                                                 *)
LiveSpec ==
    Init /\ [][Next]_vars /\ WF_vars(tts_worker)

(* The Tk thread inside mute_now: whichever step comes next. *)
mute_now_step ==
    \/ mute_now_empty
    \/ mute_now_get_nowait
    \/ mute_now_task_done
    \/ mute_now_announce

(* In addition, the Tk thread keeps running a handler it has entered. *)
UiLiveSpec ==
    Init /\ [][Next]_vars /\ WF_vars(tts_worker) /\ WF_vars(mute_now_step)

-----------------------------------------------------------------------------
(* Function harness: hour_to_philosopher, format_time_phrase and the        *)
(* angles of draw_hands applied to every clock reading, and the marks of    *)
(* draw_face.                                                               *)

FnInit ==
    /\ SysInit
    /\ arg \in [h : Hours, m : Minutes, s : Seconds]
    /\ ret = NoCall

call_hour_to_philosopher ==
    /\ ret.fn # "hour_to_philosopher"
    /\ ret' = [fn |-> "hour_to_philosopher", val |-> hour_to_philosopher(arg.h)]
    /\ UNCHANGED <<sysvars, arg>>

call_format_time_phrase ==
    /\ ret.fn # "format_time_phrase"
    /\ ret' = [fn  |-> "format_time_phrase",
               val |-> format_time_phrase(arg.h, arg.m, arg.s)]
    /\ UNCHANGED <<sysvars, arg>>

call_draw_hands ==
    /\ ret.fn # "draw_hands"
    /\ ret' = [fn |-> "draw_hands", val |-> draw_hands(arg.h, arg.m, arg.s)]
    /\ UNCHANGED <<sysvars, arg>>

call_draw_face ==
    /\ ret.fn # "draw_face"
    /\ ret' = [fn |-> "draw_face", val |-> draw_face]
    /\ UNCHANGED <<sysvars, arg>>

FnNext ==
    \/ call_hour_to_philosopher
    \/ call_format_time_phrase
    \/ call_draw_hands
    \/ call_draw_face

FnSpec == FnInit /\ [][FnNext]_vars

-----------------------------------------------------------------------------
(* Properties                                                               *)

(* C1: the texts passed to say are texts that were put, each at most once   *)
(* and in put order: the items spoken have strictly increasing positions in *)
(* the put history and carry the text put at that position.                 *)
FifoSpeechOrder ==
    /\ \A i \in 1..Len(spoken) :
          /\ spoken[i].id \in 1..Len(enqueued)
          /\ spoken[i].text = enqueued[spoken[i].id]
    /\ \A i, j \in 1..Len(spoken) : i < j => spoken[i].id < spoken[j].id
    /\ wpc = "Speaking" => text = spoken[Len(spoken)].text

(* Two texts spoken with a put between them that was never spoken. *)
FifoSpeechOrderWitness ==
    \E i \in 1..(Len(spoken) - 1) : spoken[i + 1].id > spoken[i].id + 1

(* C2: at most one say/runAndWait call is in progress, and it is the        *)
(* worker's.                                                                *)
AtMostOneUtterance ==
    /\ active \in {0, 1}
    /\ active = 1 <=> wpc = "Speaking"

(* An utterance in progress while two more items wait. *)
AtMostOneUtteranceWitness ==
    active = 1 /\ Len(tts_queue) >= 2

DisabledTickEnqueuesNothing ==
    [][ (op' = "update_clock" /\ ~speak_var) =>
          UNCHANGED <<tts_queue, enqueued, unfinished_tasks,
                      last_spoken_second>>
      ]_vars

(* update_clock has just run with speak_var false at a second that was not  *)
(* the last one spoken.                                                     *)
DisabledTickWitness ==
    /\ op = "update_clock"
    /\ ~speak_var
    /\ now.second # last_spoken_second
    /\ last_spoken_second # -1

(* C5: once the worker has taken the sentinel it is Stopped with no say     *)
(* call in progress and has no step left to take, whatever the queue holds; *)
(* no step of the program moves it out of Stopped or passes another text to *)
(* say.                                                                     *)
NoSpeechAfterStop ==
    /\ [](text = None => (wpc = "Stopped" /\ active = 0))
    /\ [](wpc = "Stopped" => ~ENABLED tts_worker)
    /\ [][ wpc = "Stopped" =>
             (wpc' = "Stopped" /\ spoken' = spoken /\ active' = active
                /\ text' = text) ]_vars

(* The worker has taken the sentinel after speaking two phrases that were   *)
(* in front of it.                                                          *)
NoSpeechAfterStopWitness ==
    /\ wpc = "Stopped"
    /\ text = None
    /\ Len(spoken) >= 2
    /\ ui = "destroyed"

TickNeverBlocks ==
    /\ [](/\ ui = "idle" => ENABLED update_clock
          /\ ui = "init" => ENABLED update_clock
          /\ ui = "mute_loop" => ENABLED mute_now_empty
          /\ ui = "mute_get" => ENABLED mute_now_get_nowait
          /\ ui = "mute_task_done" => ENABLED mute_now_task_done
          /\ ui = "mute_announce" => ENABLED mute_now_announce)
    /\ [][ op' = "update_clock" => ui' = "idle" ]_vars

(* update_clock has just put a phrase while the worker was inside           *)
(* runAndWait and other phrases were waiting.                               *)
TickNeverBlocksWitness ==
    /\ op = "update_clock"
    /\ wpc = "Speaking"
    /\ Len(tts_queue) >= 2
    /\ tts_queue[Len(tts_queue)].id = Len(enqueued)

(* C8: an engine error ends an utterance as a normal return does: the       *)
(* worker is Idle again, the task is marked done, speak_var,                *)
(* last_spoken_second and the queue are untouched, and the worker can take  *)
(* the next item whenever there is one.                                     *)
SpeakFailureNotFatal ==
    /\ [][ op' \in {"say_raised", "say_returned"} =>
             /\ wpc = "Speaking" /\ wpc' = "Idle"
             /\ active' = active - 1
             /\ unfinished_tasks' = unfinished_tasks - 1
             /\ UNCHANGED <<tts_queue, speak_var, last_spoken_second, ui,
                            enqueued, spoken>> ]_vars
    /\ []((wpc = "Idle" /\ tts_queue # <<>>) => ENABLED tts_worker_get)

(* The engine has just failed and a phrase is waiting. *)
SpeakFailureWitness ==
    /\ op = "say_raised"
    /\ wpc = "Idle"
    /\ tts_queue # <<>>
    /\ Head(tts_queue).text # None

-----------------------------------------------------------------------------
(* Properties of the helper functions, under FnSpec                         *)

(* C9: hour_to_philosopher(h) is the one entry of PHILOSOPHERS at index     *)
(* (h mod 12) - 1, or 11 when h mod 12 = 0; hours h and h + 12 get the same *)
(* entry, and hours 0 and 12 get the twelfth.                               *)
HourToLabel ==
    ret.fn = "hour_to_philosopher" =>
        LET h   == arg.h
            k   == h % 12
            idx == IF k = 0 THEN 11 ELSE k - 1
        IN  /\ ret.val = PHILOSOPHERS[idx]
            /\ Cardinality({i \in 0..11 : PHILOSOPHERS[i] = ret.val}) = 1
            /\ h \in 0..11 => hour_to_philosopher(h + 12) = ret.val
            /\ h \in 12..23 => hour_to_philosopher(h - 12) = ret.val
            /\ h \in {0, 12} => ret.val = "Habermas"

(* hour_to_philosopher was applied to hour 0. *)
HourToLabelWitness ==
    ret.fn = "hour_to_philosopher" /\ arg.h = 0 /\ ret.val = "Habermas"

(* Reading a result back: the decimal value of a string of digits. *)
Digits == {"0", "1", "2", "3", "4", "5", "6", "7", "8", "9"}

DigitValue(c) ==
    CASE c = "0" -> 0 [] c = "1" -> 1 [] c = "2" -> 2 [] c = "3" -> 3
      [] c = "4" -> 4 [] c = "5" -> 5 [] c = "6" -> 6 [] c = "7" -> 7
      [] c = "8" -> 8 [] c = "9" -> 9

AllDigits(str) == \A i \in 1..Len(str) : SubSeq(str, i, i) \in Digits

RECURSIVE DecimalValue(_)
DecimalValue(str) ==
    IF Len(str) = 0 THEN 0
    ELSE 10 * DecimalValue(SubSeq(str, 1, Len(str) - 1))
           + DigitValue(SubSeq(str, Len(str), Len(str)))

(* C10: format_time_phrase(h, m, s) is the label of h, " says: " and the    *)
(* label's template with its literal text kept and its three fields filled: *)
(* the hour field is the decimal hour without padding (one digit below 10), *)
(* the minute and second fields are two digits each, and the fields read    *)
(* back as h, m and s.                                                      *)
PhraseFormat ==
    ret.fn = "format_time_phrase" =>
        LET r     == ret.val
            k     == arg.h % 12
            label == PHILOSOPHERS[IF k = 0 THEN 11 ELSE k - 1]
            t     == PHRASES[label]
            hlen  == IF arg.h < 10 THEN 1 ELSE 2
            p0    == Len(label) + Len(" says: ") + Len(t[1].s)
            H     == SubSeq(r, p0 + 1, p0 + hlen)
            p1    == p0 + hlen + Len(t[3].s)
            M     == SubSeq(r, p1 + 1, p1 + 2)
            p2    == p1 + 2 + Len(t[5].s)
            S     == SubSeq(r, p2 + 1, p2 + 2)
        IN  /\ Len(t) = 7
            /\ <<t[2], t[4], t[6]>> = <<Fld("h"), Fld("m"), Fld("s")>>
            /\ \A i \in {1, 3, 5, 7} : t[i].kind = "lit"
            /\ r = label \o " says: " \o t[1].s \o H \o t[3].s \o M
                     \o t[5].s \o S \o t[7].s
            /\ AllDigits(H) /\ Len(H) = hlen /\ DecimalValue(H) = arg.h
            /\ arg.h >= 10 => SubSeq(H, 1, 1) # "0"
            /\ AllDigits(M) /\ Len(M) = 2 /\ DecimalValue(M) = arg.m
            /\ AllDigits(S) /\ Len(S) = 2 /\ DecimalValue(S) = arg.s

(* format_time_phrase was applied to 0:05:07: hour "0", minute "05",        *)
(* second "07".                                                             *)
PhraseFormatWitness ==
    /\ ret.fn = "format_time_phrase"
    /\ arg = [h |-> 0, m |-> 5, s |-> 7]
    /\ ret.val = "Habermas says: Communicative act: the time is 0:05:07."


(* C11: for every reading the hour angle is (h mod 12 + m/60) * 30, the     *)
(* minute angle (m + s/60) * 6 and the second angle s * 6 degrees, each     *)
(* from 0 up to but not including 360; hourAngle(0,0,0) = 0,                *)
(* hourAngle(6,0,0) = 180, minuteAngle(30,0) = 180, secondAngle(45) = 270.  *)
HandAngles ==
    ret.fn = "draw_hands" =>
        LET a == ret.val
            h == arg.h
            m == arg.m
            s == arg.s
        IN  /\ a.hour_angle.den > 0 /\ a.minute_angle.den > 0
            /\ 2 * a.hour_angle.num = (60 * (h % 12) + m) * a.hour_angle.den
            /\ 10 * a.minute_angle.num
                  = (60 * m + s) * a.minute_angle.den
            /\ a.second_angle = 6 * s
            /\ 0 <= a.hour_angle.num
            /\ a.hour_angle.num < 360 * a.hour_angle.den
            /\ 0 <= a.minute_angle.num
            /\ a.minute_angle.num < 360 * a.minute_angle.den
            /\ a.second_angle \in 0..354
            /\ (h = 0 /\ m = 0) => a.hour_angle = FromInt(0)
            /\ (h = 6 /\ m = 0) => a.hour_angle = FromInt(180)
            /\ (m = 30 /\ s = 0) => a.minute_angle = FromInt(180)
            /\ s = 45 => a.second_angle = 270

(* draw_hands at 18:30:45: hour hand at 195, minute hand at 184.5, second   *)
(* hand at 270 degrees.                                                     *)
HandAnglesWitness ==
    /\ ret.fn = "draw_hands"
    /\ arg = [h |-> 18, m |-> 30, s |-> 45]
    /\ ret.val = [hour_angle |-> [num |-> 195, den |-> 1],
                  minute_angle |-> [num |-> 369, den |-> 2],
                  second_angle |-> 270]

(* C20: at each of the twelve marks, i * 30 degrees for i in 0..11, the     *)
(* name draw_face writes is PHILOSOPHERS[(i + 11) mod 12]; it is the        *)
(* philosopher who speaks at hours i and i + 12, and the mark is where the  *)
(* hour hand points at i o'clock and at i + 12 o'clock sharp.               *)
DialAgreesWithVoice ==
    ret.fn = "draw_face" =>
        /\ DOMAIN ret.val = 0..11
        /\ \A i \in 0..11 :
              /\ ret.val[i].angle = i * 30
              /\ ret.val[i].name = PHILOSOPHERS[(i + 11) % 12]
              /\ ret.val[i].name = hour_to_philosopher(i)
              /\ ret.val[i].name = hour_to_philosopher(i + 12)
              /\ draw_hands(i, 0, 0).hour_angle = FromInt(ret.val[i].angle)
              /\ draw_hands(i + 12, 0, 0).hour_angle
                    = FromInt(ret.val[i].angle)

(* draw_face has put Habermas at the top and Nietzsche at the bottom. *)
DialAgreesWithVoiceWitness ==
    /\ ret.fn = "draw_face"
    /\ ret.val[0] = [angle |-> 0, name |-> "Habermas"]
    /\ ret.val[6] = [angle |-> 180, name |-> "Nietzsche"]


-----------------------------------------------------------------------------
(* Properties of the program, continued                                     *)

(* C12: the worker is Idle, Speaking or Stopped, and it changes state only  *)
(* from Idle to Speaking by taking a text that is not the sentinel, from    *)
(* Speaking to Idle when runAndWait returns or raises, and from Idle to     *)
(* Stopped by taking the sentinel.                                          *)
WorkerStateMachine ==
    /\ [](wpc \in {"Idle", "Speaking", "Stopped"})
    /\ [][ wpc' # wpc =>
             \/ /\ wpc = "Idle" /\ wpc' = "Speaking"
                /\ op' = "tts_worker_get"
                /\ tts_queue # <<>> /\ Head(tts_queue).text # None
                /\ text' = Head(tts_queue).text
             \/ /\ wpc = "Speaking" /\ wpc' = "Idle"
                /\ op' \in {"say_returned", "say_raised"}
             \/ /\ wpc = "Idle" /\ wpc' = "Stopped"
                /\ op' = "tts_worker_get"
                /\ tts_queue # <<>> /\ Head(tts_queue).text = None ]_vars
    /\ [][ op' \in {"tts_worker_get", "say_returned", "say_raised"} =>
             wpc' # wpc ]_vars

(* The worker is Idle again after its second utterance. *)
WorkerStateMachineWitness ==
    /\ wpc = "Idle"
    /\ op \in {"say_returned", "say_raised"}
    /\ Len(spoken) = 2

(* C13: an update_clock that runs with speak_var true puts a phrase, the    *)
(* one for the reading it got, exactly when that reading's second differs   *)
(* from last_spoken_second, and leaves last_spoken_second equal to that     *)
(* second; however many times update_clock runs while the clock shows one   *)
(* reading, with mute_now and the check button in between, it puts at most  *)
(* one phrase.                                                              *)
SameSecondDedup ==
    /\ [][ (op' = "update_clock" /\ speak_var) =>
             /\ IF now'.second # last_spoken_second
                THEN /\ enqueued' = Append(enqueued,
                                       format_time_phrase(now'.hour,
                                                          now'.minute,
                                                          now'.second))
                     /\ Len(tts_queue') = Len(tts_queue) + 1
                ELSE UNCHANGED <<enqueued, tts_queue>>
             /\ last_spoken_second' = now'.second ]_vars
    /\ [](second_puts \in {0, 1})

(* update_clock has run again in the starting second, with speak_var true   *)
(* again after a mute_now and a click, and has put nothing: the phrase of   *)
(* that second and the notice are all that was ever put.                    *)
SameSecondDedupWitness ==
    /\ op = "update_clock"
    /\ speak_var
    /\ toggles = 1
    /\ clock_steps = 0
    /\ second_puts = 1
    /\ Len(enqueued) = 2
    /\ enqueued[2] = MutedNotice

(* Where item id of the put history is. *)
InQueueAt(id) == {i \in 1..Len(tts_queue) : tts_queue[i].id = id}
SpokenAt(id) == {i \in 1..Len(spoken) : spoken[i].id = id}
TakenSentinel(id) == enqueued[id] = None /\ InQueueAt(id) = {}

(* C14, as claimed: every item put is still in the queue or was taken by    *)
(* the worker, which passed it to say once; nothing else takes items.       *)
ConsumedOnlyByWorker ==
    /\ drained = {}
    /\ \A id \in 1..Len(enqueued) :
          \/ InQueueAt(id) # {}
          \/ Cardinality(SpokenAt(id)) = 1
          \/ TakenSentinel(id)

(* C14, amended: every item put is in exactly one place: once in the queue, *)
(* or taken by the worker and passed to say exactly once (the sentinel:     *)
(* taken by the worker and not spoken), or taken by mute_now and never      *)
(* spoken.                                                                  *)
RemovedExactlyOnce ==
    \A id \in 1..Len(enqueued) :
        LET q == Cardinality(InQueueAt(id))
            s == Cardinality(SpokenAt(id))
            d == IF id \in drained THEN 1 ELSE 0
            n == IF TakenSentinel(id) /\ wpc = "Stopped" THEN 1 ELSE 0
        IN  /\ q + s + d + n = 1
            /\ enqueued[id] = None => (s = 0 /\ d = 0)

(* One phrase taken by mute_now, a later one spoken, another waiting. *)
RemovedExactlyOnceWitness ==
    /\ drained # {}
    /\ spoken # <<>>
    /\ tts_queue # <<>>
    /\ \A id \in drained : id < spoken[1].id


(* The queue has no capacity limit, so put_nowait never raises queue.Full:  *)
(* the except clause of update_clock is never entered and no phrase is ever *)
(* dropped for lack of room.                                                *)
QueueNeverFull == ~QueueFull

(* How many notices were ever put. *)
NoticeCount ==
    Cardinality({i \in 1..Len(enqueued) : enqueued[i] = MutedNotice})

(* C16: mute_now puts the notice exactly when speak_var is true as it gets  *)
(* there, into a queue it has found empty, so that the notice is all it     *)
(* leaves behind; with speak_var false it puts nothing, and none of its     *)
(* earlier steps puts anything.  It leaves speak_var false, so a second     *)
(* mute_now without a click in between adds no notice: there is at most one *)
(* notice more than there were clicks.                                      *)
MuteNoticeOnce ==
    /\ [][ op' = "mute_now" =>
             /\ tts_queue = <<>>
             /\ IF speak_var
                THEN /\ enqueued' = Append(enqueued, MutedNotice)
                     /\ tts_queue' = << [id   |-> Len(enqueued'),
                                         text |-> MutedNotice] >>
                ELSE UNCHANGED <<enqueued, tts_queue>>
             /\ speak_var' = FALSE ]_vars
    /\ [][ op' \in {"mute_now_enter", "mute_now_empty", "mute_now_get_nowait",
                    "mute_now_task_done"} =>
             UNCHANGED <<enqueued, speak_var>> ]_vars
    /\ [](NoticeCount <= 1 + toggles)

(* A second mute_now has returned, with no click since the start: the       *)
(* notice of the first one has been spoken and the queue is empty.          *)
MuteNoticeOnceWitness ==
    /\ op = "mute_now"
    /\ toggles = 0
    /\ tts_queue = <<>>
    /\ NoticeCount = 1
    /\ \E i \in 1..Len(spoken) : spoken[i].text = MutedNotice

(* C17: the unfinished-task count is the number of items in the queue plus  *)
(* the items taken whose task_done is still to come (the worker's current   *)
(* utterance, the item mute_now has just taken) plus the sentinel once the  *)
(* worker has taken it; so it is never negative, every task_done finds it   *)
(* positive and none raises.                                                *)
TaskAccounting ==
    /\ unfinished_tasks
         = Len(tts_queue)
             + (IF wpc = "Speaking" THEN 1 ELSE 0)
             + (IF ui = "mute_task_done" THEN 1 ELSE 0)
             + (IF wpc = "Stopped" THEN 1 ELSE 0)
    /\ unfinished_tasks >= 0
    /\ unfinished_tasks <= Len(enqueued)
    /\ op # "mute_now_raised"
    /\ wpc # "Crashed"

(* Both threads are about to call task_done, for the last two items. *)
TaskAccountingWitness ==
    /\ ui = "mute_task_done"
    /\ wpc = "Speaking"
    /\ tts_queue = <<>>
    /\ unfinished_tasks = 2


MuteStates == {"mute_loop", "mute_get", "mute_task_done", "mute_announce"}

(* C18: a mute_now that has been entered returns, with speak_var false,     *)
(* whatever the worker does meanwhile, and no step of it raises; when the   *)
(* worker has emptied the queue between the test of empty() and             *)
(* get_nowait, get_nowait takes nothing and the handler goes on to the      *)
(* announcement; nothing is put while the loop runs.                        *)
MuteDrainTerminates ==
    /\ (ui \in MuteStates)
          ~> (ui = "idle" /\ op = "mute_now" /\ speak_var = FALSE)
    /\ [](op # "mute_now_raised")
    /\ [][ (ui = "mute_get" /\ tts_queue = <<>> /\ ui' # ui) =>
             /\ ui' = "mute_announce"
             /\ UNCHANGED <<tts_queue, unfinished_tasks, speak_var, drained>>
         ]_vars
    /\ [][ (ui \in MuteStates /\ ui' \in MuteStates) =>
             Len(tts_queue') <= Len(tts_queue) ]_vars

(* get_nowait has just found the queue empty although empty() had said      *)
(* otherwise: the worker took the only item in between.                     *)
MuteDrainRaceWitness ==
    /\ ui = "mute_announce"
    /\ op = "mute_now_get_nowait"
    /\ drained = {}
    /\ wpc = "Speaking"

(* No more items are ever put than this. *)
MaxPuts == MaxClockSteps + MaxToggles + 3

(* Texts waiting in the queue, and how many items were spoken or taken by   *)
(* mute_now so far.                                                         *)
RealPending == \E i \in 1..Len(tts_queue) : tts_queue[i].text # None
Settled == Len(spoken) + Cardinality(drained)

(* C19, item by item: every text put, the sentinel apart, is in the end     *)
(* passed to say or taken by mute_now.                                      *)
EventualSpeechPerItem ==
    \A id \in 1..MaxPuts :
        (Len(enqueued) >= id /\ enqueued[id] # None)
           ~> (SpokenAt(id) # {} \/ id \in drained)

====
